---------------------------- MODULE Spec2Model ----------------------------
(***************************************************************************)
(* Constraint-based narrative consistency checker (KDSH 2026, Track A).    *)
(*                                                                         *)
(* The module models src/KDSH_Submission/code/main.py:                     *)
(*   - Python str values are TLA+ strings (Len, SubSeq and \o act on them  *)
(*     as on Python strings);                                              *)
(*   - Python float values are IEEE-754 binary64 numbers, computed with    *)
(*     round-to-nearest-even exactly as CPython computes them (section     *)
(*     "binary64 arithmetic"), because the noise filter `abs(score) < 2`   *)
(*     and the threshold `sum >= -2` are decided by the rounded values;    *)
(*   - run_pipeline is a state machine whose steps are the calls it makes. *)
(***************************************************************************)
EXTENDS Integers, Sequences, FiniteSets, TLC

(***************************************************************************)
(* Natural numbers of any size: little-endian sequences of 14-bit limbs.   *)
(* TLC's integers are 32-bit, a binary64 significand has 53 bits.          *)
(***************************************************************************)
LimbBits == 14
Limb == 2 ^ LimbBits

Min(a, b) == IF a <= b THEN a ELSE b
Max(a, b) == IF a >= b THEN a ELSE b

\* limb i (1-based) of a, 0 beyond its length
LimbAt(a, i) == IF i >= 1 /\ i <= Len(a) THEN a[i] ELSE 0

\* the number of limbs of a that matter (position of the highest non-zero limb)
RECURSIVE BLen(_, _)
BLen(a, n) == IF n = 0 THEN 0 ELSE IF a[n] # 0 THEN n ELSE BLen(a, n - 1)

BTrim(a) == SubSeq(a, 1, BLen(a, Len(a)))

\* propagate carries through column sums (each column < 2^31 - 2^17)
RECURSIVE BCarry(_, _, _)
BCarry(cols, i, c) ==
    IF i > Len(cols)
    THEN IF c = 0 THEN <<>> ELSE <<c % Limb>> \o BCarry(cols, i, c \div Limb)
    ELSE LET t == cols[i] + c
         IN  <<t % Limb>> \o BCarry(cols, i + 1, t \div Limb)

BFromInt(n) == BTrim(BCarry(<<n>>, 1, 0))

BAdd(a, b) ==
    BTrim(BCarry([i \in 1..Max(Len(a), Len(b)) |-> LimbAt(a, i) + LimbAt(b, i)], 1, 0))

\* a - b for a >= b: columns a[i] - b[i] + Limb - 1 with an initial carry of 1
\* is the two's complement subtraction; the final carry-out limb is dropped
BSub(a, b) ==
    LET n == Max(Len(a), Len(b))
        r == BCarry([i \in 1..n |-> LimbAt(a, i) + (Limb - 1 - LimbAt(b, i))], 1, 1)
    IN  BTrim(SubSeq(r, 1, n))

\* -1, 0, 1 as a < b, a = b, a > b (a and b trimmed)
RECURSIVE BCmpFrom(_, _, _)
BCmpFrom(a, b, i) ==
    IF i = 0 THEN 0
    ELSE IF a[i] < b[i] THEN -1
    ELSE IF a[i] > b[i] THEN 1
    ELSE BCmpFrom(a, b, i - 1)

BCmp(a, b) ==
    IF Len(a) < Len(b) THEN -1
    ELSE IF Len(a) > Len(b) THEN 1
    ELSE BCmpFrom(a, b, Len(a))

RECURSIVE ColSum(_, _, _, _)
ColSum(a, b, k, i) ==
    IF i > Len(a) THEN 0
    ELSE (IF k - i + 1 >= 1 /\ k - i + 1 <= Len(b) THEN a[i] * b[k - i + 1] ELSE 0)
         + ColSum(a, b, k, i + 1)

\* a * b for a, b of at most 4 limbs (column sums stay below 2^31)
BMul(a, b) ==
    IF a = <<>> \/ b = <<>> THEN <<>>
    ELSE BTrim(BCarry([k \in 1..(Len(a) + Len(b) - 1) |-> ColSum(a, b, k, 1)], 1, 0))

\* number of bits of a limb value v (0 for 0)
RECURSIVE IntBits(_)
IntBits(v) == IF v = 0 THEN 0 ELSE 1 + IntBits(v \div 2)

BBits(a) == IF a = <<>> THEN 0 ELSE LimbBits * (Len(a) - 1) + IntBits(a[Len(a)])

\* a * 2^n
BShl(a, n) ==
    IF a = <<>> THEN <<>>
    ELSE LET w == n \div LimbBits
             f == 2 ^ (n % LimbBits)
         IN  BTrim([i \in 1..w |-> 0] \o BCarry([i \in 1..Len(a) |-> a[i] * f], 1, 0))

\* floor(a / 2^n)
BShr(a, n) ==
    LET w == n \div LimbBits
        b == n % LimbBits
        f == 2 ^ b
        g == 2 ^ (LimbBits - b)
    IN  IF w >= Len(a) THEN <<>>
        ELSE BTrim([i \in 1..(Len(a) - w) |->
                     (LimbAt(a, i + w) \div f) + (LimbAt(a, i + w + 1) % f) * g])

\* bit k (0-based) of a
BBit(a, k) == (LimbAt(a, (k \div LimbBits) + 1) \div (2 ^ (k % LimbBits))) % 2

\* whether a has a non-zero bit below position n
BLowBits(a, n) ==
    \/ \E i \in 1..Min(n \div LimbBits, Len(a)) : a[i] # 0
    \/ LimbAt(a, (n \div LimbBits) + 1) % (2 ^ (n % LimbBits)) # 0

(***************************************************************************)
(* binary64 arithmetic.  A Python float is [sg, m, e] with value           *)
(* (-1)^sg * m * 2^e, where m is a natural number of exactly Precision     *)
(* bits, or <<>> with e = 0 for zero.  Every operation computes the exact  *)
(* result and rounds it to nearest, ties to even.  Exponents stay far      *)
(* inside the normal range for the values the program computes, so         *)
(* subnormals, infinities and NaN do not arise.                            *)
(***************************************************************************)
Precision == 53

FZero(sg) == [sg |-> sg, m |-> <<>>, e |-> 0]

\* the binary64 nearest to (-1)^sg * (n * 2^e [+ a non-zero amount below one
\* unit of n when sticky])
FRound(sg, n, e, sticky) ==
    LET L == BBits(n)
    IN  IF L = 0 THEN FZero(sg)
        ELSE IF L <= Precision
        THEN [sg |-> sg, m |-> BShl(n, Precision - L), e |-> e - (Precision - L)]
        ELSE LET d    == L - Precision
                 q    == BShr(n, d)
                 half == BBit(n, d - 1) = 1
                 rest == sticky \/ BLowBits(n, d - 1)
                 up   == half /\ (rest \/ BBit(q, 0) = 1)
                 r    == IF up THEN BAdd(q, <<1>>) ELSE q
             IN  IF BBits(r) > Precision
                 THEN [sg |-> sg, m |-> BShr(r, 1), e |-> e + d + 1]
                 ELSE [sg |-> sg, m |-> r, e |-> e + d]

\* float(n) for a Python int n, |n| < 2^31
FInt(n) == FRound(IF n < 0 THEN 1 ELSE 0, BFromInt(IF n < 0 THEN -n ELSE n), 0, FALSE)

\* the fraction digits of r / q, k limbs of 14 bits produced 7 bits at a time
\* (q < 2^24 keeps r * 128 below 2^31); <<limbs (most significant first), remainder>>
RECURSIVE FracLimbs(_, _, _)
FracLimbs(r, q, k) ==
    IF k = 0 THEN <<<<>>, r>>
    ELSE LET c1 == r * 128
             d1 == c1 \div q
             c2 == (c1 % q) * 128
             d2 == c2 \div q
             t  == FracLimbs(c2 % q, q, k - 1)
         IN  <<(<<d1 * 128 + d2>>) \o t[1], t[2]>>

Reverse(s) == [i \in 1..Len(s) |-> s[Len(s) + 1 - i]]

FracLen == 7

\* p / q for Python ints p >= 0, q > 0 (int true division is correctly rounded)
FDivInt(p, q) ==
    LET fr == FracLimbs(p % q, q, FracLen)
        n  == BTrim(Reverse(fr[1]) \o BFromInt(p \div q))
    IN  FRound(0, n, -(LimbBits * FracLen), fr[2] # 0)

FNeg(x) == [x EXCEPT !.sg = 1 - x.sg]
FAbs(x) == [x EXCEPT !.sg = 0]

\* -1, 0, 1 as |x| < |y|, |x| = |y|, |x| > |y|
FCmpMag(x, y) ==
    IF x.m = <<>> THEN (IF y.m = <<>> THEN 0 ELSE -1)
    ELSE IF y.m = <<>> THEN 1
    ELSE IF x.e < y.e THEN -1
    ELSE IF x.e > y.e THEN 1
    ELSE BCmp(x.m, y.m)

\* -1, 0, 1 as x < y, x = y, x > y (-0.0 = 0.0)
FCmp(x, y) ==
    IF x.m = <<>> /\ y.m = <<>> THEN 0
    ELSE IF x.sg # y.sg THEN (IF x.sg = 1 THEN -1 ELSE 1)
    ELSE IF x.sg = 0 THEN FCmpMag(x, y) ELSE -FCmpMag(x, y)

FLt(x, y) == FCmp(x, y) < 0
FGe(x, y) == FCmp(x, y) >= 0
FGt(x, y) == FCmp(x, y) > 0

\* beyond this exponent gap the smaller operand only decides the rounding
GuardGap == Precision + 2

\* x + y for non-zero x, y with |x| >= |y|
FAddOrdered(x, y) ==
    LET d == x.e - y.e
    IN  IF x.sg = y.sg
        THEN IF d > GuardGap
             THEN FRound(x.sg, BShl(x.m, 2), x.e - 2, TRUE)
             ELSE FRound(x.sg, BAdd(BShl(x.m, d), y.m), y.e, FALSE)
        ELSE IF d > GuardGap
             THEN FRound(x.sg, BSub(BShl(x.m, 2), <<1>>), x.e - 2, TRUE)
             ELSE LET n == BSub(BShl(x.m, d), y.m)
                  IN  IF n = <<>> THEN FZero(0) ELSE FRound(x.sg, n, y.e, FALSE)

FAdd(x, y) ==
    IF x.m = <<>> /\ y.m = <<>> THEN FZero(IF x.sg = 1 /\ y.sg = 1 THEN 1 ELSE 0)
    ELSE IF x.m = <<>> THEN y
    ELSE IF y.m = <<>> THEN x
    ELSE IF FCmpMag(x, y) >= 0 THEN FAddOrdered(x, y) ELSE FAddOrdered(y, x)

FSub(x, y) == FAdd(x, FNeg(y))

FMul(x, y) ==
    LET sg == (x.sg + y.sg) % 2
    IN  IF x.m = <<>> \/ y.m = <<>> THEN FZero(sg)
        ELSE FRound(sg, BMul(x.m, y.m), x.e + y.e, FALSE)

(***************************************************************************)
(* Python str operations.                                                  *)
(***************************************************************************)
\* str.lower() of one character (ASCII letters; every other character of the
\* texts below is left as it is, as str.lower() leaves it)
LowerChar(c) ==
    CASE c = "A" -> "a" [] c = "B" -> "b" [] c = "C" -> "c" [] c = "D" -> "d"
      [] c = "E" -> "e" [] c = "F" -> "f" [] c = "G" -> "g" [] c = "H" -> "h"
      [] c = "I" -> "i" [] c = "J" -> "j" [] c = "K" -> "k" [] c = "L" -> "l"
      [] c = "M" -> "m" [] c = "N" -> "n" [] c = "O" -> "o" [] c = "P" -> "p"
      [] c = "Q" -> "q" [] c = "R" -> "r" [] c = "S" -> "s" [] c = "T" -> "t"
      [] c = "U" -> "u" [] c = "V" -> "v" [] c = "W" -> "w" [] c = "X" -> "x"
      [] c = "Y" -> "y" [] c = "Z" -> "z" [] OTHER -> c

\* s.lower()
RECURSIVE Lower(_)
Lower(s) ==
    IF Len(s) = 0 THEN s
    ELSE IF Len(s) = 1 THEN LowerChar(s)
    ELSE LET h == Len(s) \div 2
         IN  Lower(SubSeq(s, 1, h)) \o Lower(SubSeq(s, h + 1, Len(s)))

\* w in text
Contains(text, w) ==
    \E i \in 0..(Len(text) - Len(w)) : SubSeq(text, i + 1, i + Len(w)) = w

\* any(w in text for w in words)
ContainsAny(text, words) ==
    \E k \in 1..Len(words) : Contains(text, words[k])

(***************************************************************************)
(* NarrativeStore.get_passages                                             *)
(***************************************************************************)
ChunkSize == 700

\* [text[i:i + chunk_size] for i in range(0, len(text), chunk_size)]
GetPassages(text, chunk_size) ==
    [k \in 1..((Len(text) + chunk_size - 1) \div chunk_size) |->
        SubSeq(text, (k - 1) * chunk_size + 1, Min(k * chunk_size, Len(text)))]

(***************************************************************************)
(* ConstraintExtractor.extract                                             *)
(***************************************************************************)
Constraint(id, category, description, base_weight, precedence, stateful) ==
    [id |-> id, category |-> category, description |-> description,
     base_weight |-> base_weight, precedence |-> precedence, stateful |-> stateful]

ConC1 == Constraint("C1", "BELIEF", "Distrusts authority", FInt(1), 2, TRUE)
ConC2 == Constraint("C2", "COMMITMENT", "Never betrays close allies", FInt(2), 5, TRUE)
ConC3 == Constraint("C3", "FEAR", "Avoids positions of power", FDivInt(8, 10), 1, FALSE)
ConC4 == Constraint("C4", "CAPABILITY", "Lacks key capability", FDivInt(15, 10), 3, TRUE)
ConC5 == Constraint("C5", "IDENTITY", "Core self-concept constraint", FDivInt(12, 10), 4, TRUE)

Extract(backstory) ==
    LET text == Lower(backstory)
    IN  (IF Contains(text, "authority") THEN <<ConC1>> ELSE <<>>)
        \o (IF Contains(text, "betray") \/ Contains(text, "loyal") THEN <<ConC2>> ELSE <<>>)
        \o (IF Contains(text, "fear") \/ Contains(text, "avoid") THEN <<ConC3>> ELSE <<>>)
        \o (IF Contains(text, "cannot") \/ Contains(text, "never learned") THEN <<ConC4>> ELSE <<>>)
        \o (IF Contains(text, "identity") \/ Contains(text, "i am") THEN <<ConC5>> ELSE <<>>)

(***************************************************************************)
(* ConstraintChecker.check                                                 *)
(***************************************************************************)
EvidenceResult(passage_id, score, reason, voluntary, justified) ==
    [passage_id |-> passage_id, score |-> score, reason |-> reason,
     voluntary |-> voluntary, justified |-> justified]

DuressMarkers == <<"forced", "coerced", "had to">>
RegretMarkers == <<"regret", "apolog", "no choice">>
Negations == <<"never betray", "never betrayed", "did not betray", "didn't betray">>

\* variant: the betrayal test made before the negation test
CheckBetrayalFirst(constraint, passage, passage_id) ==
    LET text      == Lower(passage)
        voluntary == ~ContainsAny(text, DuressMarkers)
        justified == ContainsAny(text, RegretMarkers)
    IN  IF constraint.category = "COMMITMENT"
           /\ Contains(" " \o text \o " ", " betrayed ")
        THEN EvidenceResult(passage_id, -10, "betrayal", voluntary, justified)
        ELSE IF constraint.category = "COMMITMENT" /\ ContainsAny(text, Negations)
        THEN EvidenceResult(passage_id, 0, "explicit non-betrayal", voluntary, FALSE)
        ELSE IF constraint.category = "CAPABILITY" /\ Contains(text, "suddenly mastered")
        THEN EvidenceResult(passage_id, -9, "capability jump", voluntary, FALSE)
        ELSE IF constraint.category = "IDENTITY" /\ Contains(text, "no longer who i was")
        THEN EvidenceResult(passage_id, -4, "identity shift", voluntary, justified)
        ELSE IF constraint.category = "BELIEF" /\ Contains(text, "became the leader")
        THEN EvidenceResult(passage_id, -3, "belief vs action", voluntary, justified)
        ELSE IF constraint.category = "FEAR" /\ Contains(text, "command")
        THEN EvidenceResult(passage_id, -1, "fear tension", voluntary, FALSE)
        ELSE EvidenceResult(passage_id, 0, "", voluntary, FALSE)

Check(constraint, passage, passage_id) ==
    LET text      == Lower(passage)
        voluntary == ~ContainsAny(text, DuressMarkers)
        justified == ContainsAny(text, RegretMarkers)
    IN  IF constraint.category = "COMMITMENT" /\ ContainsAny(text, Negations)
        THEN EvidenceResult(passage_id, 0, "explicit non-betrayal", voluntary, FALSE)
        ELSE IF constraint.category = "COMMITMENT"
                /\ Contains(" " \o text \o " ", " betrayed ")
        THEN EvidenceResult(passage_id, -10, "betrayal", voluntary, justified)
        ELSE IF constraint.category = "CAPABILITY" /\ Contains(text, "suddenly mastered")
        THEN EvidenceResult(passage_id, -9, "capability jump", voluntary, FALSE)
        ELSE IF constraint.category = "IDENTITY" /\ Contains(text, "no longer who i was")
        THEN EvidenceResult(passage_id, -4, "identity shift", voluntary, justified)
        ELSE IF constraint.category = "BELIEF" /\ Contains(text, "became the leader")
        THEN EvidenceResult(passage_id, -3, "belief vs action", voluntary, justified)
        ELSE IF constraint.category = "FEAR" /\ Contains(text, "command")
        THEN EvidenceResult(passage_id, -1, "fear tension", voluntary, FALSE)
        ELSE EvidenceResult(passage_id, 0, "", voluntary, FALSE)

(***************************************************************************)
(* TemporalAggregator.aggregate                                            *)
(***************************************************************************)
\* variant: no decay with the passage index
TimeWeightFlat(ev, total_passages) == FInt(1)

\* time_w = 1.0 - (ev.passage_id / max(total_passages, 1))
TimeWeight(ev, total_passages) ==
    FSub(FInt(1), FDivInt(ev.passage_id, Max(total_passages, 1)))

\* vol_w = 1.0 if ev.voluntary else 0.4
VoluntaryWeight(ev) == IF ev.voluntary THEN FInt(1) ELSE FDivInt(4, 10)

\* just_w = 0.6 if ev.justified else 1.0
JustificationWeight(ev) == IF ev.justified THEN FDivInt(6, 10) ELSE FInt(1)

\* ev.score * time_w * vol_w * just_w
Weighted(ev, total_passages) ==
    FMul(FMul(FMul(FInt(ev.score), TimeWeight(ev, total_passages)),
              VoluntaryWeight(ev)),
         JustificationWeight(ev))

\* variant: the settling fraction taken as one half
AfterSettlingHalf(ev, total_passages) ==
    FGt(FInt(ev.passage_id), FMul(FInt(total_passages), FDivInt(1, 2)))

\* ev.passage_id > total_passages * 0.1
AfterSettling(ev, total_passages) ==
    FGt(FInt(ev.passage_id), FMul(FInt(total_passages), FDivInt(1, 10)))

\* the loop over evidences[i..]: <<score, causal_valid>> after it
RECURSIVE AggregateLoop(_, _, _, _, _)
AggregateLoop(evidences, i, total_passages, score, causal_valid) ==
    IF i > Len(evidences) THEN <<score, causal_valid>>
    ELSE AggregateLoop(evidences, i + 1, total_passages,
                       FAdd(score, Weighted(evidences[i], total_passages)),
                       causal_valid \/ AfterSettling(evidences[i], total_passages))

\* variant: the noise threshold taken as 1
WeakNoiseBelowOne(evidences, score) == Len(evidences) = 1 /\ FLt(FAbs(score), FInt(1))

\* len(evidences) == 1 and abs(score) < 2
WeakNoise(evidences, score) == Len(evidences) = 1 /\ FLt(FAbs(score), FInt(2))

\* variant: causal_valid as initialised (False) returned for an empty list
AggregateEmptyInvalid(evidences, total_passages, constraint) ==
    IF evidences = <<>> THEN <<FZero(0), FALSE>>
    ELSE LET r == AggregateLoop(evidences, 1, total_passages, FZero(0), FALSE)
         IN  IF WeakNoise(evidences, r[1]) THEN <<FZero(0), TRUE>>
             ELSE <<FMul(r[1], constraint.base_weight), r[2]>>

Aggregate(evidences, total_passages, constraint) ==
    IF evidences = <<>> THEN <<FZero(0), TRUE>>
    ELSE LET r == AggregateLoop(evidences, 1, total_passages, FZero(0), FALSE)
         IN  IF WeakNoise(evidences, r[1]) THEN <<FZero(0), TRUE>>
             ELSE <<FMul(r[1], constraint.base_weight), r[2]>>

(***************************************************************************)
(* ConsistencyJudge.decide                                                 *)
(***************************************************************************)
ConstraintTrace(constraint, evidences, final_score, causal_valid) ==
    [constraint |-> constraint, evidences |-> evidences,
     final_score |-> final_score, causal_valid |-> causal_valid]

DecisionReport(decision, per_constraint_scores, violated_constraints) ==
    [decision |-> decision, per_constraint_scores |-> per_constraint_scores,
     violated_constraints |-> violated_constraints]

\* variant: the veto threshold taken as ev.score < -9
HardVoluntaryBreakBelow(ev) == ev.score < -9 /\ ev.voluntary

\* ev.score <= -9 and ev.voluntary
HardVoluntaryBreak(ev) == ev.score <= -9 /\ ev.voluntary

\* the ids appended by the veto loop for the evidences[j..] of one trace
RECURSIVE VetoOfTrace(_, _)
VetoOfTrace(t, j) ==
    IF j > Len(t.evidences) THEN <<>>
    ELSE (IF HardVoluntaryBreak(t.evidences[j]) THEN <<t.constraint.id>> ELSE <<>>)
         \o VetoOfTrace(t, j + 1)

\* variant: the veto loop run over the traces the noise filter left a score
RECURSIVE VetoScanAfterFilter(_, _)
VetoScanAfterFilter(traces, i) ==
    IF i > Len(traces) THEN <<>>
    ELSE (IF traces[i].final_score = FZero(0) THEN <<>> ELSE VetoOfTrace(traces[i], 1))
         \o VetoScanAfterFilter(traces, i + 1)

\* the list `violated` after the veto loop over traces[i..]
RECURSIVE VetoScan(_, _)
VetoScan(traces, i) ==
    IF i > Len(traces) THEN <<>>
    ELSE VetoOfTrace(traces[i], 1) \o VetoScan(traces, i + 1)

\* a dict is the sequence of its <<key, value>> items in insertion order;
\* d[k] = v keeps the place of a key already present
DictSet(d, k, v) ==
    IF \E i \in 1..Len(d) : d[i][1] = k
    THEN [i \in 1..Len(d) |-> IF d[i][1] = k THEN <<k, v>> ELSE d[i]]
    ELSE Append(d, <<k, v>>)

\* abs(t.final_score) < 1e-6
Negligible(t) == FLt(FAbs(t.final_score), FDivInt(1, 1000000))

\* the dict `weighted` after the loop over traces[i..], starting from d
RECURSIVE WeightedLoop(_, _, _)
WeightedLoop(traces, i, d) ==
    IF i > Len(traces) THEN d
    ELSE LET t == traces[i]
         IN  IF ~t.causal_valid \/ Negligible(t)
             THEN WeightedLoop(traces, i + 1, d)
             ELSE WeightedLoop(traces, i + 1,
                     DictSet(d, t.constraint.id,
                             FMul(t.final_score, FInt(t.constraint.precedence))))

\* sum(d.values()): the values added one by one, from the int 0, each
\* addition rounded (CPython up to 3.11; from 3.12 on sum() compensates the
\* rounding errors of the additions)
RECURSIVE SumValues(_, _, _)
SumValues(d, i, acc) ==
    IF i > Len(d) THEN acc ELSE SumValues(d, i + 1, FAdd(acc, d[i][2]))

\* variant: the tolerance band taken as open (sum > -2)
WithinToleranceStrict(weighted) == FGt(SumValues(weighted, 1, FZero(0)), FInt(-2))

\* sum(weighted.values()) >= -2
WithinTolerance(weighted) == FGe(SumValues(weighted, 1, FZero(0)), FInt(-2))

\* variant: a veto that returns the weighted breakdown as well
DecideKeepingScores(traces) ==
    LET violated == VetoScan(traces, 1)
        weighted == WeightedLoop(traces, 1, <<>>)
    IN  IF violated # <<>> THEN DecisionReport(0, weighted, violated)
        ELSE IF weighted = <<>> THEN DecisionReport(1, <<>>, <<>>)
        ELSE DecisionReport(IF WithinTolerance(weighted) THEN 1 ELSE 0, weighted, <<>>)

Decide(traces) ==
    LET violated == VetoScan(traces, 1)
        weighted == WeightedLoop(traces, 1, <<>>)
    IN  IF violated # <<>> THEN DecisionReport(0, <<>>, violated)
        ELSE IF weighted = <<>> THEN DecisionReport(1, <<>>, <<>>)
        ELSE DecisionReport(IF WithinTolerance(weighted) THEN 1 ELSE 0, weighted, <<>>)

(***************************************************************************)
(* State.  run_pipeline's locals and position (pc), the calls it has made  *)
(* (calls, a history of the run), and, for the specifications that apply   *)
(* one operation to drawn arguments, the arguments (call) and the value    *)
(* returned (ret).                                                         *)
(***************************************************************************)
VARIABLES pc, novel, backstory, passages, constraints, ci, pi, evidences,
          traces, report, calls, call, ret

vars == <<pc, novel, backstory, passages, constraints, ci, pi, evidences,
          traces, report, calls, call, ret>>

None == "none"

(***************************************************************************)
(* Inputs of run_pipeline: the text of the file at novel_path and the      *)
(* backstory.  A novel is up to MaxParagraphs paragraphs of ChunkSize      *)
(* characters, at most one of which carries a sentence that matters (the   *)
(* rest is filler text), followed by a shorter last part.                  *)
(***************************************************************************)
MaxParagraphs == 5

FillerLine == "The rain fell on the quiet town while the river ran on. "

RECURSIVE Fill(_)
Fill(n) ==
    IF n <= Len(FillerLine) THEN SubSeq(FillerLine, 1, n)
    ELSE FillerLine \o Fill(n - Len(FillerLine))

Paragraph(sentence) == sentence \o Fill(ChunkSize - Len(sentence))

Sentences ==
    { "He betrayed his closest ally to gain power. ",
      "He was forced to act and betrayed his friend, with deep regret. ",
      "He took command and became the leader of the guild. ",
      "He took command of the watch. ",
      "I am no longer who I was. ",
      "He suddenly mastered the blade. " }

LastParts ==
    { "",
      "He betrayed his closest ally to gain power.",
      "He questioned authority but stayed loyal and never betrayed anyone.",
      "He distrusted authority early in life. Later, he was forced into command during a crisis, apologized for it, and never betrayed anyone." }

RECURSIVE Fillers(_)
Fillers(n) == IF n = 0 THEN "" ELSE Paragraph("") \o Fillers(n - 1)

\* n paragraphs, paragraph k (0-based) carrying the sentence
NovelBody(n, k, sentence) ==
    Fillers(k) \o Paragraph(sentence) \o Fillers(n - k - 1)

Novels ==
    { Fillers(n) \o last : n \in 0..MaxParagraphs, last \in LastParts }
    \cup UNION { { NovelBody(n, k, s) \o last :
                     k \in 0..(n - 1), s \in Sentences, last \in LastParts } :
                   n \in 1..MaxParagraphs }

Backstories ==
    { "",
      "He never betrays allies",
      "He distrusts authority and is loyal",
      "Character distrusts authority, avoids power, and values loyalty.",
      "I am a scribe who cannot fight" }

(***************************************************************************)
(* run_pipeline                                                            *)
(***************************************************************************)
Idle ==
    /\ passages = <<>> /\ constraints = <<>> /\ ci = 0 /\ pi = 0
    /\ evidences = <<>> /\ traces = <<>> /\ report = None /\ calls = <<>>

Init ==
    /\ pc = "start"
    /\ novel \in Novels
    /\ backstory \in Backstories
    /\ Idle
    /\ call = None /\ ret = None

\* passages = store.get_passages(); constraints = extract(backstory); traces = []
\* and the entry of `for c in constraints`
Load ==
    /\ pc = "start"
    /\ passages' = GetPassages(novel, ChunkSize)
    /\ constraints' = Extract(backstory)
    /\ traces' = <<>>
    /\ evidences' = <<>>
    /\ ci' = 1 /\ pi' = 0
    /\ pc' = IF Extract(backstory) = <<>> THEN "judge" ELSE "scan"
    /\ calls' = <<>>
    /\ UNCHANGED <<novel, backstory, report, call, ret>>

\* ev.score (truth value of an int)
Retained(ev) == ev.score # 0

\* one turn of `for i, p in enumerate(passages)`
CheckPassage ==
    /\ pc = "scan"
    /\ pi < Len(passages)
    /\ LET ev == Check(constraints[ci], passages[pi + 1], pi)
       IN  evidences' = IF Retained(ev) THEN Append(evidences, ev) ELSE evidences
    /\ pi' = pi + 1
    /\ calls' = Append(calls, <<"check", ci, pi>>)
    /\ UNCHANGED <<pc, novel, backstory, passages, constraints, ci, traces,
                   report, call, ret>>

\* variant: the scan of the passages left one passage early
AggregateConstraintEarly ==
    /\ pc = "scan"
    /\ pi >= Len(passages) - 1
    /\ LET c == constraints[ci]
           r == Aggregate(evidences, Len(passages), c)
       IN  traces' = Append(traces, ConstraintTrace(c, evidences, r[1], r[2]))
    /\ calls' = Append(calls, <<"aggregate", ci>>)
    /\ IF ci < Len(constraints)
       THEN ci' = ci + 1 /\ pi' = 0 /\ evidences' = <<>> /\ pc' = "scan"
       ELSE UNCHANGED <<ci, pi, evidences>> /\ pc' = "judge"
    /\ UNCHANGED <<novel, backstory, passages, constraints, report, call, ret>>

\* the passages are exhausted: aggregate, append the trace, next constraint
AggregateConstraint ==
    /\ pc = "scan"
    /\ pi = Len(passages)
    /\ LET c == constraints[ci]
           r == Aggregate(evidences, Len(passages), c)
       IN  traces' = Append(traces, ConstraintTrace(c, evidences, r[1], r[2]))
    /\ calls' = Append(calls, <<"aggregate", ci>>)
    /\ IF ci < Len(constraints)
       THEN ci' = ci + 1 /\ pi' = 0 /\ evidences' = <<>> /\ pc' = "scan"
       ELSE UNCHANGED <<ci, pi, evidences>> /\ pc' = "judge"
    /\ UNCHANGED <<novel, backstory, passages, constraints, report, call, ret>>

\* return judge.decide(traces)
Judge ==
    /\ pc = "judge"
    /\ report' = Decide(traces)
    /\ calls' = Append(calls, <<"decide">>)
    /\ pc' = "done"
    /\ UNCHANGED <<novel, backstory, passages, constraints, ci, pi, evidences,
                   traces, call, ret>>

Next == Load \/ CheckPassage \/ AggregateConstraint \/ Judge

Spec == Init /\ [][Next]_vars

(***************************************************************************)
(* ConstraintChecker.check applied to drawn arguments.  A passage is up to *)
(* MaxFragments fragments put together, so that a phrase can stand beside  *)
(* another, be split from its neighbour by a second space, or be formed    *)
(* across two fragments.                                                   *)
(***************************************************************************)
MaxFragments == 2
MaxPassageId == 1

Fragments ==
    { "He never ",
      "betrayed",
      " betrayed them ",
      " was forced and betrayed them with regret ",
      "He DID NOT BETRAY us. ",
      "He had to. ",
      "He apologized. ",
      "She suddenly mastered it. ",
      "I am no longer who I was. ",
      "He became the leader ",
      "in command " }

RECURSIVE Texts(_)
Texts(n) ==
    IF n = 0 THEN {""}
    ELSE Texts(n - 1) \cup { t \o f : t \in Texts(n - 1), f \in Fragments }

\* a constraint of a category outside the five
ConOther == Constraint("C9", "HABIT", "Keeps a diary", FInt(1), 1, FALSE)

ExtractorConstraints == {ConC1, ConC2, ConC3, ConC4, ConC5}

NotRunning ==
    /\ pc = "call" /\ novel = "" /\ backstory = "" /\ Idle

InitCheck ==
    /\ NotRunning
    /\ call \in [op : {"check"},
                 constraint : ExtractorConstraints \cup {ConOther},
                 passage : Texts(MaxFragments),
                 passage_id : 0..MaxPassageId]
    /\ ret = None

CallCheck ==
    /\ pc = "call" /\ call.op = "check"
    /\ pc' = "return"
    /\ ret' = Check(call.constraint, call.passage, call.passage_id)
    /\ UNCHANGED <<novel, backstory, passages, constraints, ci, pi,
                   evidences, traces, report, calls, call>>

SpecCheck == InitCheck /\ [][CallCheck]_vars

(***************************************************************************)
(* TemporalAggregator.aggregate applied to drawn arguments: any evidence   *)
(* the rules can produce at any passage of a narrative of up to MaxTotal   *)
(* passages, alone or followed by up to MaxEvidences - 1 other evidences.  *)
(***************************************************************************)
MaxTotal == 5
MaxEvidences == 2

RuleScores == {-10, -9, -4, -3, -1}

ReasonOf(score) ==
    CASE score = -10 -> "betrayal" [] score = -9 -> "capability jump"
      [] score = -4 -> "identity shift" [] score = -3 -> "belief vs action"
      [] OTHER -> "fear tension"

PassageIds(total) == 0..Max(total - 1, 0)

EvidenceSet(total) ==
    { EvidenceResult(p, sc, ReasonOf(sc), v, j) :
        p \in PassageIds(total), sc \in RuleScores, v \in BOOLEAN, j \in BOOLEAN }

\* the evidences that follow the first one in the longer lists
CompanionSeq(total) ==
    << EvidenceResult(0, -1, ReasonOf(-1), TRUE, FALSE),
       EvidenceResult(Max(total - 1, 0), -10, ReasonOf(-10), FALSE, TRUE),
       EvidenceResult(total \div 2, -3, ReasonOf(-3), TRUE, TRUE),
       EvidenceResult(0, -4, ReasonOf(-4), FALSE, FALSE) >>

AggregateCalls(total) ==
    [op : {"aggregate"}, evidences : {<<>>} \cup { <<e>> : e \in EvidenceSet(total) },
     total_passages : {total}, constraint : ExtractorConstraints]
    \cup [op : {"aggregate"},
          evidences : { <<e>> \o SubSeq(CompanionSeq(total), 1, n) :
                          e \in EvidenceSet(total), n \in 1..(MaxEvidences - 1) },
          total_passages : {total}, constraint : {ConC2, ConC3}]

InitAggregate ==
    /\ NotRunning
    /\ \E total \in 0..MaxTotal : call \in AggregateCalls(total)
    /\ ret = None

CallAggregate ==
    /\ pc = "call" /\ call.op = "aggregate"
    /\ pc' = "return"
    /\ ret' = Aggregate(call.evidences, call.total_passages, call.constraint)
    /\ UNCHANGED <<novel, backstory, passages, constraints, ci, pi,
                   evidences, traces, report, calls, call>>

SpecAggregate == InitAggregate /\ [][CallAggregate]_vars

(***************************************************************************)
(* ConsistencyJudge.decide applied to drawn arguments: one trace for each  *)
(* of up to MaxTraces constraints (ids are unique within a run), with any  *)
(* of a few evidence lists, aggregated scores and validity flags.          *)
(***************************************************************************)
MaxTraces == 2

DecideConstraints == <<ConC1, ConC2, ConC3>>

DecideEvidences ==
    { <<>>,
      << EvidenceResult(0, -10, "betrayal", FALSE, FALSE),
         EvidenceResult(1, -8, "", TRUE, FALSE) >>,
      << EvidenceResult(0, -3, "belief vs action", TRUE, TRUE),
         EvidenceResult(1, -9, "capability jump", TRUE, FALSE) >> }

DecideScores ==
    { FZero(0), FNeg(FDivInt(1, 10000000)), FNeg(FDivInt(4, 10)), FInt(-1) }

\* the sequences of traces for the constraints DecideConstraints[k..] taking
\* at most n of them
RECURSIVE TraceLists(_, _)
TraceLists(k, n) ==
    IF k > Len(DecideConstraints) \/ n = 0 THEN {<<>>}
    ELSE TraceLists(k + 1, n)
         \cup { <<ConstraintTrace(DecideConstraints[k], evs, fs, cv)>> \o rest :
                  evs \in DecideEvidences, fs \in DecideScores, cv \in BOOLEAN,
                  rest \in TraceLists(k + 1, n - 1) }

InitDecide ==
    /\ NotRunning
    /\ call \in [op : {"decide"}, traces : TraceLists(1, MaxTraces)]
    /\ ret = None

CallDecide ==
    /\ pc = "call" /\ call.op = "decide"
    /\ pc' = "return"
    /\ ret' = Decide(call.traces)
    /\ UNCHANGED <<novel, backstory, passages, constraints, ci, pi,
                   evidences, traces, report, calls, call>>

SpecDecide == InitDecide /\ [][CallDecide]_vars

(***************************************************************************)
(* Properties of ConsistencyJudge.decide (SpecDecide).                     *)
(***************************************************************************)
Returned == pc = "return"

\* some evidence of some trace of the call has score <= -9 and is voluntary
SomeHardVoluntary(ts) ==
    \E i \in 1..Len(ts) : \E j \in 1..Len(ts[i].evidences) :
        ts[i].evidences[j].score <= -9 /\ ts[i].evidences[j].voluntary

\* C1 (veto precedence): whenever some evidence of the traces passed to decide
\* has score <= -9 and voluntary true, the report has decision 0 and an empty
\* per_constraint_scores, whatever the other fields of the traces are.
VetoPrecedence ==
    (Returned /\ SomeHardVoluntary(call.traces))
        => (ret.decision = 0 /\ ret.per_constraint_scores = <<>>)

\* C1's case: a veto beside a trace that alone yields decision 1 with a
\* recorded score
VetoPrecedenceWitness ==
    /\ Returned
    /\ Len(call.traces) = 2
    /\ SomeHardVoluntary(<<call.traces[2]>>)
    /\ ~SomeHardVoluntary(<<call.traces[1]>>)
    /\ Decide(<<call.traces[1]>>).decision = 1
    /\ Decide(<<call.traces[1]>>).per_constraint_scores # <<>>
    /\ ret.decision = 0

\* C2: per_constraint_scores and violated_constraints of a returned report are
\* never both non-empty.
ScoresOrViolationsEmpty ==
    Returned => ~(ret.per_constraint_scores # <<>> /\ ret.violated_constraints # <<>>)

\* C2's case: a veto fired although a trace would have been recorded
ScoresOrViolationsWitness ==
    /\ Returned
    /\ ret.violated_constraints # <<>>
    /\ \E i \in 1..Len(call.traces) :
          call.traces[i].causal_valid /\ call.traces[i].final_score = FInt(-1)

\* the traces the weighted decision records
Contributes(t) ==
    t.causal_valid /\ FGe(FAbs(t.final_score), FDivInt(1, 1000000))

CausallyValid(t) == t.causal_valid

RecordedScores(ts) ==
    LET rec == SelectSeq(ts, Contributes)
    IN  [i \in 1..Len(rec) |->
           <<rec[i].constraint.id,
             FMul(rec[i].final_score, FInt(rec[i].constraint.precedence))>>]

\* the recorded values added from left to right
RECURSIVE SumOfFirst(_, _)
SumOfFirst(d, n) == IF n = 0 THEN FZero(0) ELSE FAdd(SumOfFirst(d, n - 1), d[n][2])

\* C7 (weighted decision): with no evidence of score <= -9 and voluntary true,
\* per_constraint_scores is final_score * precedence for exactly the traces with
\* causal_valid true and |final_score| >= 1e-6, violated_constraints is empty,
\* when a trace is recorded the decision is 1 exactly if the recorded values
\* sum to >= -2, and the traces with causal_valid false change nothing.
WeightedDecision ==
    (Returned /\ ~SomeHardVoluntary(call.traces)) =>
        LET d == RecordedScores(call.traces)
        IN  /\ ret.per_constraint_scores = d
            /\ ret.violated_constraints = <<>>
            /\ ret.decision \in {0, 1}
            /\ d # <<>> => (ret.decision = 1 <=> FGe(SumOfFirst(d, Len(d)), FInt(-2)))
            /\ ret = Decide(SelectSeq(call.traces, CausallyValid))

\* C7's case: the recorded values sum to exactly -2 (decision 1) beside a trace
\* with causal_valid false whose score would have taken the sum below -2
WeightedDecisionWitness ==
    /\ Returned
    /\ ~SomeHardVoluntary(call.traces)
    /\ Len(call.traces) = 2
    /\ Len(ret.per_constraint_scores) = 1
    /\ ret.per_constraint_scores[1][2] = FInt(-2)
    /\ \E i \in 1..2 : ~call.traces[i].causal_valid /\ call.traces[i].final_score = FInt(-1)
    /\ ret.decision = 1

(***************************************************************************)
(* Properties of ConstraintChecker.check (SpecCheck).                      *)
(***************************************************************************)
NonBetrayalPhrases == {"never betray", "never betrayed", "did not betray", "didn't betray"}

\* the passage, read without regard to case, contains a non-betrayal phrase
HasNonBetrayalPhrase(passage) ==
    \E n \in NonBetrayalPhrases : Contains(Lower(passage), n)

\* C3 (non-betrayal negation immunity): for a COMMITMENT constraint, check on a
\* passage containing an explicit non-betrayal phrase returns score 0 and
\* justified false, whatever else the passage contains; the driver does not
\* retain such evidence and the veto rule does not fire on it.
NegationImmunity ==
    (Returned /\ call.constraint.category = "COMMITMENT"
              /\ HasNonBetrayalPhrase(call.passage))
        => /\ ret.score = 0
           /\ ret.justified = FALSE
           /\ ret.passage_id = call.passage_id
           /\ ~Retained(ret)
           /\ ~(ret.score <= -9 /\ ret.voluntary)

\* C3's case: the phrase beside an affirmed " betrayed " with duress and regret
NegationImmunityWitness ==
    /\ Returned
    /\ call.constraint.category = "COMMITMENT"
    /\ HasNonBetrayalPhrase(call.passage)
    /\ Contains(" " \o Lower(call.passage) \o " ", " betrayed ")
    /\ Contains(Lower(call.passage), "forced")
    /\ Contains(Lower(call.passage), "regret")
    /\ ret.score = 0

(***************************************************************************)
(* Properties of TemporalAggregator.aggregate (SpecAggregate).             *)
(***************************************************************************)
Abs(n) == IF n < 0 THEN -n ELSE n

\* |score * time_w * vol_w * just_w| < 2 in exact arithmetic, both sides
\* multiplied by 100 * max(total_passages, 1)
WeakInExactArithmetic(ev, total) ==
    Abs(ev.score) * Abs(Max(total, 1) - ev.passage_id)
        * (IF ev.voluntary THEN 10 ELSE 4) * (IF ev.justified THEN 6 ELSE 10)
      < 2 * 100 * Max(total, 1)

\* the same as the aggregator computes it
WeakAsComputed(ev, total) == FLt(FAbs(Weighted(ev, total)), FInt(2))

\* passage_id > 0.1 * total_passages in exact arithmetic
AfterSettlingExact(ev, total) == 10 * ev.passage_id > total

\* C5 (single weak-evidence suppression): aggregate on exactly one evidence
\* whose combined weighted score has absolute value < 2 (in exact arithmetic
\* or as computed) returns (0.0, true), whatever the constraint, the passage
\* index and total_passages are.
SingleWeakSuppressed ==
    (Returned /\ Len(call.evidences) = 1
              /\ (\/ WeakInExactArithmetic(call.evidences[1], call.total_passages)
                  \/ WeakAsComputed(call.evidences[1], call.total_passages)))
        => ret = <<FZero(0), TRUE>>

\* C5's case: a weak single evidence in the first 10% of the narrative, for
\* which the loop leaves causal_valid false, and a base_weight other than 1
SingleWeakWitness ==
    /\ Returned
    /\ Len(call.evidences) = 1
    /\ call.total_passages > 1
    /\ WeakInExactArithmetic(call.evidences[1], call.total_passages)
    /\ ~AfterSettlingExact(call.evidences[1], call.total_passages)
    /\ call.constraint.category = "FEAR"
    /\ ret = <<FZero(0), TRUE>>

\* the list with the evidence at position k moved to passage j
MovedTo(evs, k, j) == [evs EXCEPT ![k].passage_id = j]

\* the magnitude aggregate returns with the evidence at position k moved to j
\* is strictly below the magnitude returned for the call
StrictlyLessAt(k, j) ==
    FLt(FAbs(Aggregate(MovedTo(call.evidences, k, j), call.total_passages,
                       call.constraint)[1]),
        FAbs(ret[1]))

LaterIndexes(k) == (call.evidences[k].passage_id + 1)..(call.total_passages - 1)

\* C4 as stated (time decay monotonicity): for total_passages > 1, moving one
\* violation to any later passage index strictly lowers the magnitude of the
\* returned score.
TimeDecayStrict ==
    (Returned /\ call.total_passages > 1) =>
        \A k \in 1..Len(call.evidences) : \A j \in LaterIndexes(k) : StrictlyLessAt(k, j)

\* C4 as amended: the same, except for a list of exactly one evidence whose
\* weighted score at the earlier index already has absolute value < 2; the
\* noise filter then returns 0.0 at both indices.
TimeDecayUnlessNoise ==
    (Returned /\ call.total_passages > 1) =>
        \A k \in 1..Len(call.evidences) : \A j \in LaterIndexes(k) :
            IF WeakNoise(call.evidences, Weighted(call.evidences[1], call.total_passages))
            THEN /\ ret[1] = FZero(0)
                 /\ Aggregate(MovedTo(call.evidences, k, j), call.total_passages,
                              call.constraint)[1] = FZero(0)
            ELSE StrictlyLessAt(k, j)

\* C4's case: a violation with later indexes to move to, beside another evidence
TimeDecayWitness ==
    /\ Returned
    /\ call.total_passages > 2
    /\ Len(call.evidences) = 2
    /\ call.evidences[1].passage_id = 0
    /\ FLt(ret[1], FZero(0))

(***************************************************************************)
(* Properties of run_pipeline (Spec).                                      *)
(***************************************************************************)
Done == pc = "done"

NoEvidenceAtAll == \A k \in 1..Len(traces) : traces[k].evidences = <<>>

\* C6 (no-signal default): a constraint with no non-zero evidence aggregates
\* to (0.0, true), and a run in which every constraint has no non-zero
\* evidence (also one with no passages or no constraints) ends with decision 1
\* and both per_constraint_scores and violated_constraints empty.
NoSignalDefault ==
    /\ \A k \in 1..Len(traces) :
          traces[k].evidences = <<>>
              => (traces[k].final_score = FZero(0) /\ traces[k].causal_valid)
    /\ (Done /\ NoEvidenceAtAll) => report = DecisionReport(1, <<>>, <<>>)
    /\ (Done /\ (passages = <<>> \/ constraints = <<>>)) => NoEvidenceAtAll

\* C6's case: several constraints scanned over several passages, no evidence
NoSignalWitness ==
    /\ Done
    /\ Len(passages) >= 2
    /\ Len(traces) >= 2
    /\ NoEvidenceAtAll
    /\ report.decision = 1

\* some retained evidence of the trace lies after the first 10% of the passages
SomeAfterSettling(t) ==
    \E j \in 1..Len(t.evidences) : AfterSettlingExact(t.evidences[j], Len(passages))

\* C8 as stated (causal validity meaning): causal_valid of every trace built is
\* true exactly if some retained evidence has passage_id > 0.1 * total_passages.
CausalValidIffLate ==
    \A k \in 1..Len(traces) : traces[k].causal_valid <=> SomeAfterSettling(traces[k])

\* C8 as amended: causal_valid is true exactly if the trace retains no evidence,
\* or retains exactly one evidence whose weighted score as computed has
\* absolute value < 2 (the noise filter), or some retained evidence has
\* passage_id > 0.1 * total_passages.
CausalValidMeaning ==
    \A k \in 1..Len(traces) :
        traces[k].causal_valid <=>
            \/ traces[k].evidences = <<>>
            \/ /\ Len(traces[k].evidences) = 1
               /\ WeakAsComputed(traces[k].evidences[1], Len(passages))
            \/ SomeAfterSettling(traces[k])

\* C8's case: one trace valid only through the noise filter (a single weak
\* evidence in passage 0), another trace not valid (evidence in passage 0 only)
CausalValidWitness ==
    /\ Done
    /\ \E k \in 1..Len(traces) :
          /\ Len(traces[k].evidences) = 1
          /\ ~SomeAfterSettling(traces[k])
          /\ traces[k].causal_valid
    /\ \E k \in 1..Len(traces) : ~traces[k].causal_valid

\* the ids of the list
Ids(l) == { l[i] : i \in 1..Len(l) }

SoleHardVoluntary(t) ==
    /\ Len(t.evidences) = 1
    /\ t.evidences[1].voluntary
    /\ t.evidences[1].score <= -9

\* C9 (the veto ignores the noise filter): a constraint whose only retained
\* evidence is voluntary with raw score <= -9 makes the decision 0 with its id
\* in violated_constraints, also when the aggregator suppressed its trace.
VetoIgnoresNoise ==
    Done => \A k \in 1..Len(traces) :
                SoleHardVoluntary(traces[k])
                    => /\ report.decision = 0
                       /\ traces[k].constraint.id \in Ids(report.violated_constraints)
                       /\ report.per_constraint_scores = <<>>

\* C9's case: a voluntary betrayal in the last of more than five passages,
\* its time-decayed value below 2, the trace suppressed to (0.0, true)
VetoIgnoresNoiseWitness ==
    /\ Done
    /\ Len(passages) > 5
    /\ \E k \in 1..Len(traces) :
          /\ SoleHardVoluntary(traces[k])
          /\ traces[k].evidences[1].passage_id = Len(passages) - 1
          /\ WeakInExactArithmetic(traces[k].evidences[1], Len(passages))
          /\ traces[k].final_score = FZero(0)
          /\ traces[k].causal_valid
          /\ traces[k].constraint.id \in Ids(report.violated_constraints)
    /\ report.decision = 0

\* the evidences are non-zero and in increasing passage order
RetainedInOrder(evs) ==
    /\ \A j \in 1..Len(evs) : evs[j].score # 0 /\ evs[j].passage_id \in 0..(Len(passages) - 1)
    /\ \A j \in 1..(Len(evs) - 1) : evs[j].passage_id < evs[j + 1].passage_id

IsCall(q, kind) == calls[q][1] = kind

CallOrder ==
    /\ \A q \in 1..Len(calls) : \A r \in 1..Len(calls) : calls[q] = calls[r] => q = r
    /\ \A q \in 1..Len(calls) :
          /\ IsCall(q, "aggregate") =>
                /\ \A p \in 0..(Len(passages) - 1) :
                      \E r \in 1..(q - 1) : calls[r] = <<"check", calls[q][2], p>>
                /\ \A r \in (q + 1)..Len(calls) :
                      ~(IsCall(r, "check") /\ calls[r][2] = calls[q][2])
          /\ IsCall(q, "decide") =>
                /\ q = Len(calls)
                /\ \A k \in 1..Len(constraints) :
                      \E r \in 1..(q - 1) : calls[r] = <<"aggregate", k>>
    /\ Len(traces) = Cardinality({ q \in 1..Len(calls) : IsCall(q, "aggregate") })
    /\ \A k \in 1..Len(traces) :
          traces[k].constraint = constraints[k] /\ RetainedInOrder(traces[k].evidences)
    /\ RetainedInOrder(evidences)
    /\ Done => (calls # <<>> /\ IsCall(Len(calls), "decide")
                /\ Len(traces) = Len(constraints))

TracesKept ==
    \A k \in 1..Len(traces) : Len(traces') >= k /\ traces'[k] = traces[k]

\* C10 (pipeline ordering): every passage is scored for a constraint before
\* aggregate is invoked for it, once per constraint; only non-zero evidence is
\* retained, in increasing passage order; decide is invoked once, after every
\* constraint has been aggregated; a trace never changes once built.
PipelineOrdering == []CallOrder /\ [][TracesKept]_vars

\* C10's case: a finished run over several constraints and passages with
\* retained evidence
PipelineOrderingWitness ==
    /\ Done
    /\ Len(constraints) >= 2
    /\ Len(passages) >= 3
    /\ \E k \in 1..Len(traces) : Len(traces[k].evidences) >= 2

=============================================================================
